---- MODULE Spec2Model ----
(***************************************************************************)
(* Record-and-replay test transcript of liblasso                           *)
(* (src/src/utils/test_lib.rs): TranscriptRow, TranscriptLog and            *)
(* TestTranscript with its ProofTranscript implementation.                  *)
(*                                                                         *)
(* A state holds a small pool of TestTranscript instances.  Instance 1 is   *)
(* the value returned by TestTranscript::new(); further instances are       *)
(* produced by TestTranscript::as_this.  A failed assert_eq! / index check  *)
(* is a panic: the flag `panicked` is raised and nothing runs afterwards.   *)
(***************************************************************************)
EXTENDS Integers, Sequences, FiniteSets, TLC

\* ------------------------------------------------------------------ bounds
\* Calls made on the recording (Write) instance; length of a vector argument.
MaxCalls == 2
MaxVec == 1

\* The variables of the test that hold a TestTranscript: variable 1 is
\* `let mut t = TestTranscript::new()`, variable 2 is `let mut u`, assigned
\* (and reassigned) from TestTranscript::as_this.
Inst == {1, 2}
Derived == Inst \ {1}

\* ------------------------------------------------------- input alphabets
\* b"begin_append_vector" and b"end_append_vector" as byte strings.
BeginMarker == <<98,101,103,105,110,95,97,112,112,101,110,100,95,118,101,99,116,111,114>>
EndMarker == <<101,110,100,95,97,112,112,101,110,100,95,118,101,99,116,111,114>>

\* b"protocol-name", the label append_protocol_name absorbs under.
ProtocolNameLabel == "protocol-name"

\* b"transcript", the label new() gives every instance.
TranscriptLabel == "transcript"

\* The label a caller passes to the calls below (any &'static [u8]).
Labels == {"l"}

\* Protocol names a caller passes: the two-byte string 01 00.
Names == {<<1, 0>>}

\* Messages a caller passes to append_message.
Messages == {BeginMarker, EndMarker}

\* The u64 value a caller passes to append_u64.
U64s == {258}

\* Scalars: canonical representatives of field elements.
Scalars == {1, 256}

\* Group elements, by index into a table of affine coordinates: point 1 is
\* the identity (0, 1) of a twisted Edwards curve, point 2 a point with a
\* negative x.  Callers pass the identity.
PointY(p) == IF p = 1 THEN 1 ELSE 2
PointXNegative(p) == p = 2
Points == {1}

\* The elements of the vectors passed to append_scalars / append_points.
VecScalars == {1}
VecPoints == {1}

\* Little-endian encoding of n in `width` bytes.
RECURSIVE LEBytes(_, _)
LEBytes(n, width) ==
    IF width = 0 THEN <<>> ELSE <<n % 256>> \o LEBytes(n \div 256, width - 1)

\* scalar.serialize_compressed: fixed-width little-endian bytes of the
\* canonical representative (two bytes for the model's field).
SerializeScalar(s) == LEBytes(s, 2)

\* point.serialize_compressed: the y coordinate, little-endian, with the sign
\* of x in the top bit of the last byte.
SerializePoint(p) ==
    LET y == LEBytes(PointY(p), 2)
    IN  IF PointXNegative(p) THEN <<y[1], y[2] + 128>> ELSE y

\* The vectors over S of length n.
Vectors(S, n) == [1..n -> S]

\* ------------------------------------------------------------ operations
\* One call of the ProofTranscript interface: its kind, label and argument
\* (bytes, a value, or a sequence of values).
Op(kind, label, arg) == [kind |-> kind, label |-> label, arg |-> arg]

Ops ==
    {Op("append_protocol_name", "-", n) : n \in Names}
    \cup {Op("append_message", l, m) : l \in Labels, m \in Messages}
    \cup {Op("append_u64", l, <<x>>) : l \in Labels, x \in U64s}
    \cup {Op("append_scalar", l, <<s>>) : l \in Labels, s \in Scalars}
    \cup {Op("append_scalars", l, v) :
            l \in Labels, v \in Vectors(VecScalars, 0) \cup Vectors(VecScalars, MaxVec)}
    \cup {Op("append_point", l, <<p>>) : l \in Labels, p \in Points}
    \cup {Op("append_points", l, v) : l \in Labels, v \in Vectors(VecPoints, MaxVec)}
    \cup {Op("challenge_scalar", l, <<>>) : l \in Labels}
    \cup {Op("challenge_vector", l, <<n>>) : l \in Labels, n \in {0, MaxVec}}

\* ---------------------------------------------------------- TranscriptRow
ChallengeVector(label, len) == [tag |-> "ChallengeVector", label |-> label, val |-> <<len>>]
ChallengeScalar(label) == [tag |-> "ChallengeScalar", label |-> label, val |-> <<>>]
AppendedMessage(label, msg) == [tag |-> "AppendedMessage", label |-> label, val |-> msg]
AppendedU64(label, x) == [tag |-> "AppendedU64", label |-> label, val |-> <<x>>]
AppendedGeneric(label, bytes) == [tag |-> "AppendedGeneric", label |-> label, val |-> bytes]

\* ---------------------------------------------------------- TranscriptLog
Write(rows) == [mode |-> "Write", rows |-> rows, idx |-> 0]
Read(rows, idx) == [mode |-> "Read", rows |-> rows, idx |-> idx]

\* TranscriptLog::append on `log`: the log afterwards and whether the call
\* panicked.  In Read mode rows[*idx] panics when idx is past the end and
\* assert_eq! panics on a different row; the cursor moves only after both.
LogAppendOffByOne(log, row) ==
    IF log.mode = "Write"
    THEN [log |-> Write(Append(log.rows, row)), panic |-> FALSE]
    ELSE IF log.idx + 1 < Len(log.rows) /\ log.rows[log.idx + 2] = row
         THEN [log |-> Read(log.rows, log.idx + 1), panic |-> FALSE]
         ELSE [log |-> log, panic |-> TRUE]

LogAppendPastEnd(log, row) ==
    IF log.mode = "Write"
    THEN [log |-> Write(Append(log.rows, row)), panic |-> FALSE]
    ELSE IF log.idx >= Len(log.rows) \/ log.rows[log.idx + 1] = row
         THEN [log |-> Read(log.rows, log.idx + 1), panic |-> FALSE]
         ELSE [log |-> log, panic |-> TRUE]

LogAppendAdvanceFirst(log, row) ==
    IF log.mode = "Write"
    THEN [log |-> Write(Append(log.rows, row)), panic |-> FALSE]
    ELSE [log |-> Read(log.rows, log.idx + 1),
          panic |-> ~(log.idx < Len(log.rows) /\ log.rows[log.idx + 1] = row)]

LogAppendNoCompare(log, row) ==
    IF log.mode = "Write"
    THEN [log |-> Write(Append(log.rows, row)), panic |-> FALSE]
    ELSE IF log.idx < Len(log.rows)
         THEN [log |-> Read(log.rows, log.idx + 1), panic |-> FALSE]
         ELSE [log |-> log, panic |-> TRUE]

LogAppendEndsRecording(log, row) ==
    IF log.mode = "Write"
    THEN [log |-> Read(Append(log.rows, row), Len(log.rows) + 1), panic |-> FALSE]
    ELSE IF log.idx < Len(log.rows) /\ log.rows[log.idx + 1] = row
         THEN [log |-> Read(log.rows, log.idx + 1), panic |-> FALSE]
         ELSE [log |-> log, panic |-> TRUE]

LogAppendPushFront(log, row) ==
    IF log.mode = "Write"
    THEN [log |-> Write(<<row>> \o log.rows), panic |-> FALSE]
    ELSE IF log.idx < Len(log.rows) /\ log.rows[log.idx + 1] = row
         THEN [log |-> Read(log.rows, log.idx + 1), panic |-> FALSE]
         ELSE [log |-> log, panic |-> TRUE]

LogAppendRewindOnMismatch(log, row) ==
    IF log.mode = "Write"
    THEN [log |-> Write(Append(log.rows, row)), panic |-> FALSE]
    ELSE IF log.idx < Len(log.rows) /\ log.rows[log.idx + 1] = row
         THEN [log |-> Read(log.rows, log.idx + 1), panic |-> FALSE]
         ELSE [log |-> Read(log.rows, 0), panic |-> TRUE]

LogAppend(log, row) ==
    IF log.mode = "Write"
    THEN [log |-> Write(Append(log.rows, row)), panic |-> FALSE]
    ELSE IF log.idx < Len(log.rows) /\ log.rows[log.idx + 1] = row
         THEN [log |-> Read(log.rows, log.idx + 1), panic |-> FALSE]
         ELSE [log |-> log, panic |-> TRUE]

\* ------------------------------------------------------ the sponge (merlin)
\* The sponge is a deterministic function of its initial label and the
\* ordered history of what it absorbed and was asked for: its state is that
\* history, and a challenge is a value determined by the history.
Item(kind, label, data) == [item |-> kind, label |-> label, data |-> data]

\* merlin::Transcript::new(label)
MerlinNew(label) == <<Item("new", label, <<>>)>>

\* merlin::Transcript::append_message(label, message)
MerlinAppendMessage(m, label, msg) == Append(m, Item("append_message", label, msg))

\* merlin::Transcript::append_u64(label, x): append_message of the eight
\* little-endian bytes of x.
MerlinAppendU64(m, label, x) == MerlinAppendMessage(m, label, LEBytes(x, 8))

\* <Transcript as ProofTranscript>::challenge_scalar(label): the sponge after
\* the request, and the field element derived from it.
MerlinChallengeScalar(m, label) ==
    LET after == Append(m, Item("challenge_scalar", label, <<>>))
    IN  [merlin |-> after, out |-> <<[from |-> after, k |-> 1]>>]

\* <Transcript as ProofTranscript>::challenge_vector(label, len): the sponge
\* after the request, and the len field elements derived from it.
MerlinChallengeVector(m, label, len) ==
    LET after == Append(m, Item("challenge_vector", label, <<len>>))
    IN  [merlin |-> after, out |-> [k \in 1..len |-> [from |-> after, k |-> k]]]

\* --------------------------------------------------------- TestTranscript
\* The struct: label, merlin_transcript, log.
TestTranscript(label, merlin, log) ==
    [label |-> label, merlin_transcript |-> merlin, log |-> log]

\* A call in progress on a TestTranscript: the struct, whether the call has
\* panicked, and the value it returns (challenges only).
Run(t) == [t |-> t, panic |-> FALSE, ret |-> <<>>]

\* TestTranscript::new
New == TestTranscript(TranscriptLabel, MerlinNew(TranscriptLabel), Write(<<>>))

\* self.log.append(row) inside a method; a panicked call runs nothing more.
SelfLogAppend(r, row) ==
    IF r.panic THEN r
    ELSE LET a == LogAppend(r.t.log, row)
         IN  [r EXCEPT !.t.log = a.log, !.panic = a.panic]

\* TestTranscript::_append_message
PrivAppendMessage(r, label, msg) ==
    IF r.panic THEN r
    ELSE SelfLogAppend(
            [r EXCEPT !.t.merlin_transcript = MerlinAppendMessage(@, label, msg)],
            AppendedGeneric(label, msg))

\* ProofTranscript::challenge_scalar: the row is checked first, the sponge is
\* asked only when the log accepted the row.
challenge_scalar(r, label) ==
    LET a == SelfLogAppend(r, ChallengeScalar(label))
        c == MerlinChallengeScalar(a.t.merlin_transcript, label)
    IN  IF a.panic THEN a
        ELSE [a EXCEPT !.t.merlin_transcript = c.merlin, !.ret = c.out]

\* ProofTranscript::challenge_vector
challenge_vector(r, label, len) ==
    LET a == SelfLogAppend(r, ChallengeVector(label, len))
        c == MerlinChallengeVector(a.t.merlin_transcript, label, len)
    IN  IF a.panic THEN a
        ELSE [a EXCEPT !.t.merlin_transcript = c.merlin, !.ret = c.out]

\* ProofTranscript::append_message: the sponge absorbs, then the row is logged.
append_message(r, label, msg) ==
    IF r.panic THEN r
    ELSE SelfLogAppend(
            [r EXCEPT !.t.merlin_transcript = MerlinAppendMessage(@, label, msg)],
            AppendedMessage(label, msg))

\* ProofTranscript::append_u64
append_u64(r, label, x) ==
    IF r.panic THEN r
    ELSE SelfLogAppend(
            [r EXCEPT !.t.merlin_transcript = MerlinAppendU64(@, label, x)],
            AppendedU64(label, x))

\* ProofTranscript::append_protocol_name
append_protocol_name(r, protocol_name) ==
    PrivAppendMessage(r, ProtocolNameLabel, protocol_name)

\* ProofTranscript::append_scalar
append_scalar(r, label, scalar) ==
    PrivAppendMessage(r, label, SerializeScalar(scalar))

\* ProofTranscript::append_point
append_point(r, label, point) ==
    PrivAppendMessage(r, label, SerializePoint(point))

\* The loop `for item in scalars.iter() { append_scalar(self, label, item) }`.
RECURSIVE AppendEachScalar(_, _, _)
AppendEachScalar(r, label, scalars) ==
    IF scalars = <<>> THEN r
    ELSE AppendEachScalar(append_scalar(r, label, Head(scalars)), label, Tail(scalars))

\* The loop `for item in points.iter() { self.append_point(label, item) }`.
RECURSIVE AppendEachPoint(_, _, _)
AppendEachPoint(r, label, points) ==
    IF points = <<>> THEN r
    ELSE AppendEachPoint(append_point(r, label, Head(points)), label, Tail(points))

\* ProofTranscript::append_scalars
append_scalars_NoEndMarker(r, label, scalars) ==
    AppendEachScalar(append_message(r, label, BeginMarker), label, scalars)

append_scalars(r, label, scalars) ==
    append_message(
        AppendEachScalar(append_message(r, label, BeginMarker), label, scalars),
        label, EndMarker)

\* ProofTranscript::append_points
append_points_NoBeginMarker(r, label, points) ==
    append_message(AppendEachPoint(r, label, points), label, EndMarker)

\* ProofTranscript::append_points
append_points(r, label, points) ==
    append_message(
        AppendEachPoint(append_message(r, label, BeginMarker), label, points),
        label, EndMarker)

\* The call `op` made on the struct t: dispatch on the method called.
Exec(t, op) ==
    LET r == Run(t)
    IN  CASE op.kind = "append_protocol_name" -> append_protocol_name(r, op.arg)
          [] op.kind = "append_message" -> append_message(r, op.label, op.arg)
          [] op.kind = "append_u64" -> append_u64(r, op.label, op.arg[1])
          [] op.kind = "append_scalar" -> append_scalar(r, op.label, op.arg[1])
          [] op.kind = "append_scalars" -> append_scalars(r, op.label, op.arg)
          [] op.kind = "append_point" -> append_point(r, op.label, op.arg[1])
          [] op.kind = "append_points" -> append_points(r, op.label, op.arg)
          [] op.kind = "challenge_scalar" -> challenge_scalar(r, op.label)
          [] op.kind = "challenge_vector" -> challenge_vector(r, op.label, op.arg[1])

\* TestTranscript::as_this
as_this_CloneSponge(other) ==
    TestTranscript(other.label, other.merlin_transcript, Read(other.log.rows, 0))

as_this_KeepCursor(other) ==
    TestTranscript(other.label, MerlinNew(other.label), Read(other.log.rows, other.log.idx))

as_this(other) ==
    LET log_records == other.log.rows
    IN  TestTranscript(other.label, MerlinNew(other.label), Read(log_records, 0))

\* TestTranscript::assert_end: TRUE when the call returns, FALSE when its
\* assert_eq! panics.
assert_end_AtMost(t) ==
    IF t.log.mode # "Read" THEN TRUE ELSE t.log.idx <= Len(t.log.rows)

assert_end_AnyMode(t) == Len(t.log.rows) = t.log.idx

assert_end(t) ==
    IF t.log.mode # "Read" THEN TRUE ELSE Len(t.log.rows) = t.log.idx

\* The rows one call hands to the log, in order, when nothing panics.
RowsOf(op) ==
    CASE op.kind = "append_protocol_name" -> <<AppendedGeneric(ProtocolNameLabel, op.arg)>>
      [] op.kind = "append_message" -> <<AppendedMessage(op.label, op.arg)>>
      [] op.kind = "append_u64" -> <<AppendedU64(op.label, op.arg[1])>>
      [] op.kind = "append_scalar" -> <<AppendedGeneric(op.label, SerializeScalar(op.arg[1]))>>
      [] op.kind = "append_scalars" ->
            <<AppendedMessage(op.label, BeginMarker)>>
            \o [k \in 1..Len(op.arg) |-> AppendedGeneric(op.label, SerializeScalar(op.arg[k]))]
            \o <<AppendedMessage(op.label, EndMarker)>>
      [] op.kind = "append_point" -> <<AppendedGeneric(op.label, SerializePoint(op.arg[1]))>>
      [] op.kind = "append_points" ->
            <<AppendedMessage(op.label, BeginMarker)>>
            \o [k \in 1..Len(op.arg) |-> AppendedGeneric(op.label, SerializePoint(op.arg[k]))]
            \o <<AppendedMessage(op.label, EndMarker)>>
      [] op.kind = "challenge_scalar" -> <<ChallengeScalar(op.label)>>
      [] op.kind = "challenge_vector" -> <<ChallengeVector(op.label, op.arg[1])>>

\* The rows a sequence of calls hands to the log, in call order.
RECURSIVE RowsOfCalls(_)
RowsOfCalls(ops) ==
    IF ops = <<>> THEN <<>> ELSE RowsOf(Head(ops)) \o RowsOfCalls(Tail(ops))

\* ------------------------------------------------------ IdentitySubtable
\* F: PrimeField.  The subtable is generic in the field; the model's field is
\* the integers modulo the prime P, in which 2 has order 13.
P == 8191

\* The width of u64.
U64Bits == 64

\* The table size of iden_materialize_mle_parity.
TestM == 256

\* F::from(n) for a u64 n: n reduced modulo the field's prime.
FromU64(n) == n % P

\* F::from(1u64 << k) for k < 64, where the shift does not overflow: the
\* field element 2^k, computed by squaring and doubling in the field (2^63
\* does not fit the model's integers, its residue does).
RECURSIVE Pow2F(_)
Pow2F(k) ==
    IF k = 0 THEN FromU64(1)
    ELSE IF k % 2 = 0 THEN LET h == Pow2F(k \div 2) IN (h * h) % P
    ELSE (2 * Pow2F(k - 1)) % P

\* F::from(1u64 << i).  A shift by 64 or more overflows: a build with
\* overflow checks panics, a build without them shifts by i modulo 64.
ShlOneNoOverflow(i, overflow_checks) == [panic |-> FALSE, val |-> Pow2F(i)]

ShlOne(i, overflow_checks) ==
    IF i < U64Bits THEN [panic |-> FALSE, val |-> Pow2F(i)]
    ELSE IF overflow_checks THEN [panic |-> TRUE, val |-> 0]
    ELSE [panic |-> FALSE, val |-> Pow2F(i % U64Bits)]

\* 2^k as an integer, and ark_std::log2 on powers of two.
RECURSIVE Pow2(_)
Pow2(k) == IF k = 0 THEN 1 ELSE 2 * Pow2(k - 1)

RECURSIVE Log2(_)
Log2(n) == IF n <= 1 THEN 0 ELSE 1 + Log2(n \div 2)

\* n is a power of two.
IsPow2(n) == n >= 1 /\ n = Pow2(Log2(n))

materialize_PowerOfTwoOnly(M) ==
    IF IsPow2(M) THEN [k \in 1..M |-> FromU64(k - 1)] ELSE <<>>

\* IdentitySubtable::materialize
materialize_FromOne(M) == [k \in 1..M |-> FromU64(k)]

materialize(M) == [k \in 1..M |-> FromU64(k - 1)]

\* One iteration of the loop of evaluate_mle: the term
\* F::from(1u64 << i) * point[point.len() - 1 - i]; point[j] of the code is
\* point[j + 1] here.
Term(point, i, overflow_checks) ==
    LET w == ShlOne(i, overflow_checks)
    IN  [panic |-> w.panic, out |-> (w.val * point[Len(point) - 1 - i + 1]) % P]

\* The same iteration reading the point from its first coordinate.
TermLsbFirst(point, i, overflow_checks) ==
    LET w == ShlOne(i, overflow_checks)
    IN  [panic |-> w.panic, out |-> (w.val * point[i + 1]) % P]

\* The iterations lo .. hi - 1 of the loop `for i in 0..point.len()`, added
\* to F::zero(): a panic in any of them ends the call, otherwise `result` is
\* the sum of their terms in the field.  Field addition is associative, so
\* the terms are summed by halves, which keeps the evaluation shallow.
RECURSIVE EvaluateLoop(_, _, _, _)
EvaluateLoop(point, lo, hi, overflow_checks) ==
    IF hi <= lo THEN [panic |-> FALSE, out |-> 0]
    ELSE IF hi = lo + 1 THEN Term(point, lo, overflow_checks)
    ELSE LET mid == (lo + hi) \div 2
             a == EvaluateLoop(point, lo, mid, overflow_checks)
             b == EvaluateLoop(point, mid, hi, overflow_checks)
         IN  IF a.panic \/ b.panic THEN [panic |-> TRUE, out |-> 0]
             ELSE [panic |-> FALSE, out |-> (a.out + b.out) % P]

\* The same loop reading the point from its first coordinate.
RECURSIVE EvaluateLoopLsbFirst(_, _, _, _)
EvaluateLoopLsbFirst(point, lo, hi, overflow_checks) ==
    IF hi <= lo THEN [panic |-> FALSE, out |-> 0]
    ELSE IF hi = lo + 1 THEN TermLsbFirst(point, lo, overflow_checks)
    ELSE LET mid == (lo + hi) \div 2
             a == EvaluateLoopLsbFirst(point, lo, mid, overflow_checks)
             b == EvaluateLoopLsbFirst(point, mid, hi, overflow_checks)
         IN  IF a.panic \/ b.panic THEN [panic |-> TRUE, out |-> 0]
             ELSE [panic |-> FALSE, out |-> (a.out + b.out) % P]

\* IdentitySubtable::evaluate_mle
evaluate_mle_LsbFirst(point, overflow_checks) ==
    EvaluateLoopLsbFirst(point, 0, Len(point), overflow_checks)

evaluate_mle(point, overflow_checks) ==
    EvaluateLoop(point, 0, Len(point), overflow_checks)

\* The arguments callers pass.  Tables of every size up to 2^MaxBits and of
\* the test's size; points of up to MaxBits arbitrary coordinates, the
\* boolean points of log2(TestM) coordinates, and points of 64 and more
\* coordinates with one coordinate set.
MaxBits == 3

TableSizes == 0..Pow2(MaxBits) \cup {TestM}

Coords == {0, 1, 2, P - 1}

UnitPoint(m, j, v) == [k \in 1..m |-> IF k = j THEN v ELSE 0]

EvalPoints ==
    UNION {Vectors(Coords, n) : n \in 0..MaxBits}
    \cup Vectors({0, 1}, Log2(TestM))
    \cup {UnitPoint(m, j, v) :
            m \in U64Bits..(U64Bits + 2), j \in {1, 2, 3}, v \in {1, 2}}

\* ------------------------------------------------------------------ state
VARIABLES
    live,          \* the variables that hold an instance
    tt,            \* tt[i]: the TestTranscript struct variable i holds
    panic,         \* the call that panicked, if one did
    calls,         \* calls[i]: the interface calls that returned on tt[i], in order
    outs,          \* outs[i]: what the challenge calls on tt[i] returned, in order
    captured,      \* captured[i]: the calls that recorded the rows tt[i] was derived with
    capturedOuts,  \* capturedOuts[i]: what those calls returned when they were recorded
    table,         \* the last materialize call: its argument and what it returned
    mle            \* the last evaluate_mle call: its argument and how it ended

transcriptVars == <<live, tt, panic, calls, outs, captured, capturedOuts>>

subtableVars == <<table, mle>>

vars == <<live, tt, panic, calls, outs, captured, capturedOuts, table, mle>>

NoOp == Op("-", "-", <<>>)

\* No panic, and the panic of a call or an assert_end on instance i: the call
\* made and the cursor it started from.
NoPanic == [inst |-> 0, at |-> "none", op |-> NoOp, from |-> 0]
PanicAt(i, where, op, from) == [inst |-> i, at |-> where, op |-> op, from |-> from]
panicked == panic.inst # 0

\* The state after `let mut t = TestTranscript::new()`.
Init ==
    /\ live = {1}
    /\ tt = [i \in Inst |-> New]
    /\ panic = NoPanic
    /\ calls = [i \in Inst |-> <<>>]
    /\ outs = [i \in Inst |-> <<>>]
    /\ captured = [i \in Inst |-> <<>>]
    /\ capturedOuts = [i \in Inst |-> <<>>]
    /\ table = [called |-> FALSE, M |-> 0, out |-> <<>>]
    /\ mle = [called |-> FALSE, point |-> <<>>, panic |-> FALSE, out |-> 0]

\* One interface call on variable i.  A panic ends the test: the struct is
\* left as the unwinding finds it, and the call is not counted in calls[i].
\* A Write instance takes at most MaxCalls calls; a Read instance is bounded
\* by its rows.
Call(i, op) ==
    /\ ~panicked
    /\ i \in live
    /\ tt[i].log.mode = "Write" => Len(calls[i]) < MaxCalls
    /\ LET r == Exec(tt[i], op)
       IN  /\ tt' = [tt EXCEPT ![i] = r.t]
           /\ panic' = IF r.panic THEN PanicAt(i, "call", op, tt[i].log.idx) ELSE NoPanic
           /\ calls' = [calls EXCEPT ![i] = IF r.panic THEN @ ELSE Append(@, op)]
           /\ outs' = [outs EXCEPT ![i] = IF r.panic THEN @ ELSE Append(@, r.ret)]
    /\ UNCHANGED <<live, captured, capturedOuts>>
    /\ UNCHANGED subtableVars

\* What `d = TestTranscript::as_this(&s)` does to the variables: d holds the
\* new instance, every other variable keeps its own.
DeriveTakingRows(ts, s, d) ==
    [i \in Inst |->
        IF i = d THEN as_this(ts[s])
        ELSE IF i = s THEN [ts[s] EXCEPT !.log.rows = <<>>]
        ELSE ts[i]]

Derive(ts, s, d) == [ts EXCEPT ![d] = as_this(ts[s])]

\* `d = TestTranscript::as_this(&s)`: d is assigned for the first time or
\* reassigned (with d = s the source's own variable is rebound).
AsThis(s, d) ==
    /\ ~panicked
    /\ s \in live
    /\ live' = live \cup {d}
    /\ tt' = Derive(tt, s, d)
    /\ calls' = [calls EXCEPT ![d] = <<>>]
    /\ outs' = [outs EXCEPT ![d] = <<>>]
    /\ captured' = [captured EXCEPT ![d] =
                        IF tt[s].log.mode = "Write" THEN calls[s] ELSE captured[s]]
    /\ capturedOuts' = [capturedOuts EXCEPT ![d] =
                        IF tt[s].log.mode = "Write" THEN outs[s] ELSE capturedOuts[s]]
    /\ UNCHANGED panic
    /\ UNCHANGED subtableVars

\* `t[i].assert_end()`.
AssertEnd(i) ==
    /\ ~panicked
    /\ i \in live
    /\ panic' = IF assert_end(tt[i]) THEN NoPanic
                ELSE PanicAt(i, "assert_end", NoOp, tt[i].log.idx)
    /\ UNCHANGED <<live, tt, calls, outs, captured, capturedOuts>>
    /\ UNCHANGED subtableVars

Next ==
    \/ \E i \in Inst, op \in Ops : Call(i, op)
    \/ \E s \in Inst, d \in Derived : AsThis(s, d)
    \/ \E i \in Inst : AssertEnd(i)

Spec == Init /\ [][Next]_vars

\* `subtable.materialize(M)` on an IdentitySubtable.  The subtable holds no
\* data (PhantomData) and both methods are pure, so no call depends on an
\* earlier one: a run makes one call of each, in either order.
Materialize(M) ==
    /\ ~mle.panic
    /\ ~table.called
    /\ table' = [called |-> TRUE, M |-> M, out |-> materialize(M)]
    /\ UNCHANGED mle
    /\ UNCHANGED transcriptVars

\* `subtable.evaluate_mle(&point)`, in a build with or without overflow
\* checks.  A panic ends the program.
EvaluateMle(point, overflow_checks) ==
    /\ ~mle.called
    /\ LET r == evaluate_mle(point, overflow_checks)
       IN  mle' = [called |-> TRUE, point |-> point, panic |-> r.panic, out |-> r.out]
    /\ UNCHANGED table
    /\ UNCHANGED transcriptVars

NextIdentity ==
    \/ \E M \in TableSizes : Materialize(M)
    \/ \E point \in EvalPoints, overflow_checks \in BOOLEAN :
            EvaluateMle(point, overflow_checks)

SpecIdentity == Init /\ [][NextIdentity]_vars

\* ------------------------------------------------------- claim vocabulary
IsPrefix(a, b) == Len(a) <= Len(b) /\ a = SubSeq(b, 1, Len(a))

Front(a) == SubSeq(a, 1, Len(a) - 1)

IsRead(i) == i \in live /\ tt[i].log.mode = "Read"

VectorKinds == {"append_scalars", "append_points"}

\* The step is the call `op` on instance i.  This is Call(i, op), with what
\* every such step does to calls[i] or to panic tested first.
IsCall(i, op) ==
    /\ \/ calls'[i] = Append(calls[i], op)
       \/ (panic'.inst = i /\ panic'.op = op)
    /\ Call(i, op)

\* A call, or an assert_end, on instance i has panicked.
PanickedIn(i, where) == panic.inst = i /\ panic.at = where

\* C1: a Read instance derived from a Write instance and driven through the
\* calls that were recorded, in order, completes every one of them without a
\* panic, and assert_end after the last of them returns.
C1_ReplaySucceeds ==
    [][/\ \A i \in Derived, op \in Ops :
            (IsPrefix(Append(calls[i], op), captured[i]) /\ IsCall(i, op))
                => (~panicked' /\ calls'[i] = Append(calls[i], op))
       /\ \A i \in Derived :
            (calls[i] = captured[i] /\ AssertEnd(i)) => ~panicked']_vars

\* C1 witness: a recording of MaxCalls calls, a vector append among them, was
\* replayed in full and the cursor stands at the end of the rows.
C1_Witness ==
    /\ ~panicked
    /\ IsRead(2)
    /\ Len(captured[2]) = MaxCalls
    /\ calls[2] = captured[2]
    /\ \E k \in 1..Len(calls[2]) : calls[2][k].kind \in VectorKinds
    /\ assert_end(tt[2])

\* C2: after replaying all but the last of n >= 1 recorded calls, assert_end
\* panics: the cursor is below the number of rows.
C2_ShortReplayFailsAtEnd ==
    \A i \in Derived :
        (IsRead(i) /\ ~panicked /\ captured[i] # <<>> /\ calls[i] = Front(captured[i]))
            => (~assert_end(tt[i]) /\ tt[i].log.idx < Len(tt[i].log.rows))

\* C2 witness: assert_end panicked on a replay that had made the first of
\* MaxCalls recorded calls.
C2_Witness ==
    /\ PanickedIn(2, "assert_end")
    /\ Len(captured[2]) = MaxCalls
    /\ calls[2] = Front(captured[2])
    /\ calls[2] # <<>>

\* C3: after the n recorded calls were replayed, any further append or
\* challenge call panics, at that call.
C3_ExtraCallFails ==
    [][\A i \in Derived, op \in Ops :
            (calls[i] = captured[i] /\ IsCall(i, op))
                => panic' = PanicAt(i, "call", op, Len(tt[i].log.rows))]_vars

\* C3 witness: a call panicked on an instance that had replayed its whole,
\* non-empty recording.
C3_Witness ==
    /\ PanickedIn(2, "call")
    /\ captured[2] # <<>>
    /\ calls[2] = captured[2]
    /\ tt[2].log.idx = Len(tt[2].log.rows)

\* The first of the rows `rows` that a Read log `log` does not hold at the
\* cursor position the row is presented at (0: it holds them all).
FirstBad(log, rows) ==
    LET bad == {k \in 1..Len(rows) :
                    \/ log.idx + k > Len(log.rows)
                    \/ log.rows[log.idx + k] # rows[k]}
    IN  IF bad = {} THEN 0 ELSE CHOOSE k \in bad : \A j \in bad : k <= j

NumRows(op) == IF op.kind \in VectorKinds THEN Len(op.arg) + 2 ELSE 1

\* C5 as stated: in Read mode every call panics or moves the cursor by one.
C5_Original ==
    [][\A i \in Derived, op \in Ops :
            IsCall(i, op)
                => (panicked' \/ tt'[i].log.idx = tt[i].log.idx + 1)]_vars

\* C5 amended: in Read mode every call panics or moves the cursor by the
\* number of rows it produces: one, and L + 2 for append_scalars and
\* append_points on a sequence of length L.
C5_CursorAdvancesByRows ==
    [][\A i \in Derived, op \in Ops :
            IsCall(i, op)
                => (panicked' \/ tt'[i].log.idx = tt[i].log.idx + NumRows(op))]_vars

\* C5 witness: a replayed append_scalars of MaxVec scalars moved the cursor
\* from 0 to MaxVec + 2.
C5_Witness ==
    /\ ~panicked
    /\ IsRead(2)
    /\ Len(calls[2]) = 1
    /\ calls[2][1].kind = "append_scalars"
    /\ Len(calls[2][1].arg) = MaxVec
    /\ tt[2].log.idx = MaxVec + 2

\* C6 as stated: a Read instance whose calls all returned and whose
\* assert_end returns was driven through the very calls that were recorded.
C6_Original ==
    \A i \in Derived :
        (IsRead(i) /\ ~panicked /\ assert_end(tt[i])) => calls[i] = captured[i]

\* C6 amended: a Read instance whose calls all returned and whose assert_end
\* returns was driven through calls that produce, row for row, the rows that
\* were recorded.
C6_SameRows ==
    \A i \in Derived :
        (IsRead(i) /\ ~panicked /\ assert_end(tt[i]))
            => /\ RowsOfCalls(calls[i]) = RowsOfCalls(captured[i])
               /\ RowsOfCalls(calls[i]) = tt[i].log.rows

\* C6 witness: a replay reached the end of a non-empty recording through
\* calls other than the recorded ones.
C6_Witness ==
    /\ ~panicked
    /\ IsRead(2)
    /\ assert_end(tt[2])
    /\ tt[2].log.rows # <<>>
    /\ calls[2] # captured[2]

\* C7: while a Read instance is driven through the calls that were recorded,
\* in order, each of its challenge calls returns the value the recording
\* instance returned for that call.
C7_SameChallenges ==
    \A i \in Derived :
        (IsRead(i) /\ IsPrefix(calls[i], captured[i]))
            => outs[i] = SubSeq(capturedOuts[i], 1, Len(calls[i]))

\* C7 witness: a replay returned a challenge that depends on data absorbed
\* before it.
C7_Witness ==
    /\ ~panicked
    /\ IsRead(2)
    /\ Len(calls[2]) = 2
    /\ calls[2] = captured[2]
    /\ calls[2][1].kind = "append_scalar"
    /\ calls[2][2].kind = "challenge_vector"
    /\ Len(outs[2][2]) = MaxVec

\* C8: as_this on a source in Write mode, or in Read mode at any cursor,
\* returns a Read log over the source's rows with cursor 0, the source's
\* label, and a sponge freshly made from that label.
C8_AsThisResult ==
    [][\A s \in Inst, d \in Derived :
            AsThis(s, d)
                => /\ tt'[d].log = Read(tt[s].log.rows, 0)
                   /\ tt'[d].label = tt[s].label
                   /\ tt'[d].merlin_transcript = MerlinNew(tt[s].label)]_vars

\* C8 witness: a freshly derived instance holds the rows of a source whose
\* sponge has absorbed data, and its own sponge is fresh.
C8_Witness ==
    /\ IsRead(2)
    /\ calls[2] = <<>>
    /\ tt[2].log = Read(tt[1].log.rows, 0)
    /\ Len(tt[2].log.rows) > MaxCalls
    /\ tt[2].merlin_transcript = MerlinNew(tt[1].label)
    /\ tt[1].merlin_transcript # tt[2].merlin_transcript

\* A step that is a call or an assert_end on instance i: it adds to the calls
\* of i, or it panics on i.
ActsOn(i) == Len(calls'[i]) = Len(calls[i]) + 1 \/ panic'.inst = i

\* C9: as_this leaves its source as it was, and a call or assert_end on one
\* instance leaves every other instance as it was.
C9_Independent ==
    [][/\ \A s \in Inst, d \in Derived : (s # d /\ AsThis(s, d)) => tt'[s] = tt[s]
       /\ \A i \in Inst : ActsOn(i) => \A j \in Inst \ {i} : tt'[j] = tt[j]]_vars

\* C9 witness: after the derivation the source recorded further rows and the
\* derived instance moved its cursor.
C9_Witness ==
    /\ IsRead(2)
    /\ tt[2].log.idx > 0
    /\ Len(tt[1].log.rows) > Len(tt[2].log.rows)
    /\ IsPrefix(tt[2].log.rows, tt[1].log.rows)

\* C10: new() gives a Write log with no rows; a step that changes the mode
\* of an instance, or gives a variable a Read instance, is an as_this into
\* that variable: no call and no assert_end changes a mode.
C10_ModeMachine ==
    /\ (live = {1} /\ tt[1].log = Write(<<>>))
    /\ [][\A i \in Inst :
            (\/ tt'[i].log.mode # tt[i].log.mode
             \/ (~IsRead(i) /\ IsRead(i)'))
                => \E s \in Inst : AsThis(s, i)]_vars

\* C10 witness: a Write instance that recorded MaxCalls calls beside a Read
\* instance that replayed one of them.
C10_Witness ==
    /\ ~panicked
    /\ tt[1].log.mode = "Write"
    /\ Len(calls[1]) = MaxCalls
    /\ IsRead(2)
    /\ Len(calls[2]) = 1

\* What one call does to the sponge, in order: the absorptions and challenge
\* requests the method makes on self.merlin_transcript.
ItemsOf(op) ==
    CASE op.kind = "append_protocol_name" ->
            <<Item("append_message", ProtocolNameLabel, op.arg)>>
      [] op.kind = "append_message" -> <<Item("append_message", op.label, op.arg)>>
      [] op.kind = "append_u64" ->
            <<Item("append_message", op.label, LEBytes(op.arg[1], 8))>>
      [] op.kind = "append_scalar" ->
            <<Item("append_message", op.label, SerializeScalar(op.arg[1]))>>
      [] op.kind = "append_scalars" ->
            <<Item("append_message", op.label, BeginMarker)>>
            \o [k \in 1..Len(op.arg) |->
                    Item("append_message", op.label, SerializeScalar(op.arg[k]))]
            \o <<Item("append_message", op.label, EndMarker)>>
      [] op.kind = "append_point" ->
            <<Item("append_message", op.label, SerializePoint(op.arg[1]))>>
      [] op.kind = "append_points" ->
            <<Item("append_message", op.label, BeginMarker)>>
            \o [k \in 1..Len(op.arg) |->
                    Item("append_message", op.label, SerializePoint(op.arg[k]))]
            \o <<Item("append_message", op.label, EndMarker)>>
      [] op.kind = "challenge_scalar" -> <<Item("challenge_scalar", op.label, <<>>)>>
      [] op.kind = "challenge_vector" -> <<Item("challenge_vector", op.label, op.arg)>>

\* C11: in Write mode every call returns, does its operation on the sponge,
\* and puts its rows at the end of the log, leaving the rows before them as
\* they were; the log of a Write instance is the concatenation, in call
\* order, of the rows of the calls made on it.
C11_WriteAppendsInOrder ==
    /\ [](\A i \in Inst :
            (i \in live /\ tt[i].log.mode = "Write")
                => tt[i].log = Write(RowsOfCalls(calls[i])))
    /\ [][\A i \in Inst, op \in Ops :
            (tt[i].log.mode = "Write" /\ IsCall(i, op))
                => /\ ~panicked'
                   /\ calls'[i] = Append(calls[i], op)
                   /\ tt'[i].log = Write(tt[i].log.rows \o RowsOf(op))
                   /\ tt'[i].merlin_transcript
                        = tt[i].merlin_transcript \o ItemsOf(op)]_vars

\* C11 witness: a Write instance took MaxCalls calls of different kinds, a
\* vector append the last of them, and holds more rows than calls.
C11_Witness ==
    /\ ~panicked
    /\ tt[1].log.mode = "Write"
    /\ Len(calls[1]) = MaxCalls
    /\ calls[1][1].kind = "challenge_scalar"
    /\ calls[1][MaxCalls].kind = "append_points"
    /\ Len(tt[1].log.rows) > MaxCalls
    /\ tt[1].log.rows = RowsOfCalls(calls[1])

\* ------------------------------------------- recordings of vector appends
\* A second specification: one Write instance recording calls whose vectors
\* have up to MaxVecLen elements over two scalars and two points, beside
\* single appends of the same elements and of the marker messages.
MaxVecLen == 2

VecElems == {1, 2}

VecOps ==
    {Op("append_scalars", l, v) :
        l \in Labels, v \in UNION {Vectors(VecElems, n) : n \in 0..MaxVecLen}}
    \cup {Op("append_points", l, v) :
        l \in Labels, v \in UNION {Vectors(VecElems, n) : n \in 0..MaxVecLen}}
    \cup {Op("append_scalar", l, <<s>>) : l \in Labels, s \in VecElems}
    \cup {Op("append_point", l, <<p>>) : l \in Labels, p \in VecElems}
    \cup {Op("append_message", l, m) : l \in Labels, m \in Messages}

\* One call made on the instance `TestTranscript::new()` returned.
Record(op) == Call(1, op)

NextVec == \E op \in VecOps : Record(op)

SpecVec == Init /\ [][NextVec]_vars

\* The serialized element a vector append passes to the sponge and the log.
SerializeElem(kind, e) ==
    IF kind = "append_scalars" THEN SerializeScalar(e) ELSE SerializePoint(e)

\* The call `op` is a vector append that put, behind what `old` held, a begin
\* marker, the elements in sequence order, and an end marker; Entry makes
\* the entry of the log (a row) or of the sponge (an absorbed message).
Entry(what, marker, label, bytes) ==
    IF what = "sponge" THEN Item("append_message", label, bytes)
    ELSE IF marker THEN AppendedMessage(label, bytes)
    ELSE AppendedGeneric(label, bytes)

Bracketed(old, new, op, what) ==
    LET n == Len(old)
        L == Len(op.arg)
    IN  /\ Len(new) = n + L + 2
        /\ SubSeq(new, 1, n) = old
        /\ new[n + 1] = Entry(what, TRUE, op.label, BeginMarker)
        /\ \A k \in 1..L :
                new[n + 1 + k] = Entry(what, FALSE, op.label, SerializeElem(op.kind, op.arg[k]))
        /\ new[n + L + 2] = Entry(what, TRUE, op.label, EndMarker)

\* The first L calls of `ops` are single element appends.
StartsWithSingles(ops, L) ==
    /\ Len(ops) >= L
    /\ \A k \in 1..L : ops[k].kind \in {"append_scalar", "append_point"}

\* The rows a vector append records on a new instance.
RecordedAlone(op) == Exec(New, op).t.log.rows

\* No call of `ops` is a vector append.
NoVectorAppend(ops) == \A k \in 1..Len(ops) : ops[k].kind \notin VectorKinds

\* C12 as stated, its consequence: for every L, the rows of a length-L vector
\* append differ from the rows of L single element appends followed by any
\* other data (calls that are not themselves vector appends).
C12_Original ==
    \A op \in VecOps :
        (/\ op.kind \in VectorKinds
         /\ ~panicked
         /\ StartsWithSingles(calls[1], Len(op.arg))
         /\ NoVectorAppend(calls[1]))
            => tt[1].log.rows # RecordedAlone(op)

\* C12 amended: a vector append absorbs and records begin marker, L elements
\* in order, end marker; and for every L >= 1, the rows of a length-L vector
\* append differ from the rows of L single element appends followed by any
\* other calls, vector appends among them.
C12_BracketedVectors ==
    /\ [][\A op \in VecOps :
            (op.kind \in VectorKinds /\ IsCall(1, op))
                => /\ ~panicked'
                   /\ Bracketed(tt[1].log.rows, tt'[1].log.rows, op, "log")
                   /\ Bracketed(tt[1].merlin_transcript, tt'[1].merlin_transcript, op,
                                "sponge")]_vars
    /\ [](\A op \in VecOps :
            (/\ op.kind \in VectorKinds
             /\ Len(op.arg) >= 1
             /\ ~panicked
             /\ StartsWithSingles(calls[1], Len(op.arg)))
                => tt[1].log.rows # RecordedAlone(op))

\* C12 witness: a vector append of MaxVecLen different elements was recorded
\* behind a single append of its first element.
C12_Witness ==
    /\ ~panicked
    /\ Len(calls[1]) = 2
    /\ calls[1][1].kind = "append_scalar"
    /\ calls[1][2].kind = "append_scalars"
    /\ Len(calls[1][2].arg) = MaxVecLen
    /\ calls[1][2].arg[1] = calls[1][1].arg[1]
    /\ calls[1][2].arg[1] # calls[1][2].arg[MaxVecLen]
    /\ Len(tt[1].log.rows) = MaxVecLen + 3

\* ------------------------------------------------ IdentitySubtable claims
\* The m coordinates holding the bits of i, most significant first:
\* coordinate j (from 0) is bit m - 1 - j.
BitsMsbFirst(i, m) == [j \in 1..m |-> (i \div Pow2(m - j)) % 2]

\* C13: for every m and every i in [0, 2^m), evaluate_mle on the bits of i,
\* most significant first, returns materialize(2^m)[i]; for m = 8 and
\* i = 200 it returns the field element 200.
C13_MleConsistency ==
    /\ (table.called /\ mle.called /\ IsPow2(table.M))
            => \A i \in 0..(table.M - 1) :
                    mle.point = BitsMsbFirst(i, Log2(table.M))
                        => (~mle.panic /\ mle.out = table.out[i + 1])
    /\ (mle.called /\ mle.point = BitsMsbFirst(200, 8))
            => (~mle.panic /\ mle.out = 200)

\* C13 witness: materialize(256) was called and evaluate_mle was called on
\* the eight bits of 200.
C13_Witness ==
    /\ table.called
    /\ table.M = TestM
    /\ mle.called
    /\ mle.point = <<1, 1, 0, 0, 1, 0, 0, 0>>
    /\ mle.out = table.out[201]

\* C14: materialize(M) returns exactly M entries, entry i the field
\* embedding of i; materialize(256) is 0, 1, 2, ..., 255.
C14_MaterializeEntries ==
    table.called
        => /\ Len(table.out) = table.M
           /\ \A i \in 0..(table.M - 1) : table.out[i + 1] = i % P
           /\ table.M = 256 => table.out = [k \in 1..256 |-> k - 1]

\* C14 witness: materialize(256) returned a table whose last entry is 255.
C14_Witness ==
    /\ table.called
    /\ table.M = 256
    /\ table.out[256] = 255

\* The sum over k = lo .. hi - 1 of 2^k * point[m - 1 - k] in the field.
RECURSIVE WeightedSum(_, _, _)
WeightedSum(point, lo, hi) ==
    IF hi <= lo THEN 0
    ELSE IF hi = lo + 1 THEN (Pow2F(lo) * point[Len(point) - lo]) % P
    ELSE LET mid == (lo + hi) \div 2
         IN  (WeightedSum(point, lo, mid) + WeightedSum(point, mid, hi)) % P

\* C15 as stated: evaluate_mle on a point of any length m with arbitrary
\* field coordinates returns the sum over k of 2^k * point[m - 1 - k], and
\* zero for m = 0.
C15_Original ==
    mle.called
        => /\ ~mle.panic
           /\ mle.out = WeightedSum(mle.point, 0, Len(mle.point))
           /\ mle.point = <<>> => mle.out = 0

\* C16 as stated: materialize(M) with M not a power of two fails: no table
\* is returned for such an M (stated for M >= 1, the empty table aside).
C16_Original == (table.called /\ table.M >= 1) => IsPow2(table.M)

\* C16 amended: materialize does not check that M is a power of two; for
\* such an M too the call returns, with the M entries 0, 1, ..., M - 1.
C16_SizeNotChecked ==
    (table.called /\ ~IsPow2(table.M))
        => table.out = [k \in 1..table.M |-> (k - 1) % P]

\* C16 witness: materialize(3) returned three entries.
C16_Witness ==
    /\ table.called
    /\ table.M = 3
    /\ table.out = <<0, 1, 2>>

\* C20 as stated: for every point length m, 64 and more included, the
\* weight evaluate_mle applies to coordinate point[m - 1 - k] is 2^k, and
\* the computation of 1u64 << k neither wraps nor aborts: on the point whose
\* only non-zero coordinate is v at m - 1 - k, the call returns v * 2^k.
C20_Original ==
    mle.called
        => /\ ~mle.panic
           /\ \A k \in 0..(Len(mle.point) - 1), v \in {1, 2} :
                mle.point = UnitPoint(Len(mle.point), Len(mle.point) - k, v)
                    => mle.out = (v * Pow2F(k)) % P

\* ------------------------------------------------- the test of test.rs
\* test_transcript: the scalars the test passes to the constructor and then
\* expects from challenge_scalar, as field elements that no sponge derived.
ScriptedScalars == <<10, 20, 30>>

FieldLiteral(n) == [from |-> <<>>, k |-> n]

\* How many of the first k calls of `ops` are challenge_scalar calls.
NumChallengeScalars(ops, k) ==
    Cardinality({j \in 1..k : ops[j].kind = "challenge_scalar"})

\* C17 as stated: the n-th challenge_scalar call on the instance the test
\* constructs returns the n-th scripted scalar, whatever the label and
\* whatever the sponge absorbed: the first one returns what the test's
\* first challenge_scalar(b"oi-mate") on a new instance returns.
C17_Original ==
    \A k \in 1..Len(calls[1]) :
        calls[1][k].kind = "challenge_scalar"
            => /\ outs[1][k]
                    = <<FieldLiteral(ScriptedScalars[NumChallengeScalars(calls[1], k)])>>
               /\ NumChallengeScalars(calls[1], k) = 1
                    => outs[1][k] = challenge_scalar(Run(New), "oi-mate").ret

\* ------------------------------------------------ assert_end, Read logs
\* C18: assert_end changes nothing; it returns on a Write instance whatever
\* its log holds, and on a Read instance exactly when the cursor equals the
\* number of rows; no append or challenge call enforces that condition: a
\* call whose rows match returns wherever it leaves the cursor.
C18_AssertEndOnDemand ==
    /\ [](\A i \in Inst :
            assert_end(tt[i])
                <=> (tt[i].log.mode = "Write" \/ tt[i].log.idx = Len(tt[i].log.rows)))
    /\ [][\A i \in Inst :
            (panic'.inst = i /\ panic'.at = "assert_end")
                => /\ tt' = tt
                   /\ IsRead(i)
                   /\ tt[i].log.idx # Len(tt[i].log.rows)]_vars
    /\ [][\A i \in Derived, op \in Ops :
            (IsCall(i, op) /\ FirstBad(tt[i].log, RowsOf(op)) = 0) => ~panicked']_vars

\* C18 witness: a call returned on a Read instance leaving the cursor short
\* of the end, where assert_end would panic, beside a Write instance with
\* rows, where assert_end returns.
C18_Witness ==
    /\ ~panicked
    /\ IsRead(2)
    /\ calls[2] # <<>>
    /\ tt[2].log.idx < Len(tt[2].log.rows)
    /\ ~assert_end(tt[2])
    /\ tt[1].log.mode = "Write"
    /\ tt[1].log.rows # <<>>
    /\ assert_end(tt[1])

\* C19: on a Read instance the cursor is between 0 and the number of rows,
\* and the rows are the rows captured at the derivation; no step but a new
\* derivation into the variable, a panicking call included, moves the cursor
\* back or changes the rows.
C19_ReadLogInvariant ==
    /\ [](\A i \in Derived :
            IsRead(i)
                => /\ tt[i].log.idx \in 0..Len(tt[i].log.rows)
                   /\ tt[i].log.rows = RowsOfCalls(captured[i]))
    /\ [][\A i \in Derived :
            (/\ IsRead(i)
             /\ \/ tt'[i].log.idx < tt[i].log.idx
                \/ tt'[i].log.rows # tt[i].log.rows
                \/ tt'[i].log.mode # "Read")
                => \E s \in Inst : AsThis(s, i)]_vars

\* C19 witness: a call panicked on a Read instance after an earlier call had
\* moved its cursor, and the cursor and the rows are as that call left them.
C19_Witness ==
    /\ PanickedIn(2, "call")
    /\ tt[2].log.idx > 0
    /\ tt[2].log.idx < Len(tt[2].log.rows)
    /\ tt[2].log.rows = RowsOfCalls(captured[2])
    /\ panic.op.kind \in VectorKinds
====
